---- MODULE Spec2Model ----
(***************************************************************************)
(* Model of stream-markdown's two incremental block engines:               *)
(*   - the imperative session of createSession (session.ts), and           *)
(*   - the pure state-merge function mergeMarkdownState                    *)
(*     (markdown-state.ts), threaded through useDerivedState.              *)
(*                                                                         *)
(* Text is a sequence of characters.  The block grammar (remark) is        *)
(* external to the repository; it is modelled by a small deterministic     *)
(* block grammar: the character Break ends a block, every maximal run of   *)
(* other characters is one paragraph, reported with its start offset       *)
(* relative to the span that was parsed.                                   *)
(*                                                                         *)
(* A JavaScript array is a record [ref, items]: ref is the identity of     *)
(* the array object, items its contents.                                   *)
(***************************************************************************)
EXTENDS Integers, Sequences, FiniteSets, TLC

\* ---------------------------------------------------------------- bounds
\* longest running text (in characters) a session or merge state holds
MaxLen == 4
\* largest version a divergence rebuild of the merge engine may produce
MaxVersion == 1

\* ------------------------------------------------------------ characters
Break == "n"
Chars == {"a", Break}

Texts == UNION {[1..n -> Chars] : n \in 0..MaxLen}

\* String.prototype.slice(start) on a text, start a 0-based offset
Slice(text, start) ==
  IF start >= Len(text) THEN <<>> ELSE SubSeq(text, start + 1, Len(text))

\* String.prototype.startsWith
StartsWith(text, prefix) ==
  /\ Len(prefix) <= Len(text)
  /\ SubSeq(text, 1, Len(prefix)) = prefix

\* Array.prototype.join('') over a list of chunks
RECURSIVE Join(_)
Join(chunks) ==
  IF chunks = <<>> THEN <<>> ELSE Head(chunks) \o Join(Tail(chunks))

IsPrefix(xs, ys) ==
  /\ Len(xs) <= Len(ys)
  /\ SubSeq(ys, 1, Len(xs)) = xs

\* ---------------------------------------------------------------- parser
\* index of the last character of the block that starts at index i
RECURSIVE BlockEnd(_, _)
BlockEnd(src, i) ==
  IF i < Len(src) /\ src[i + 1] # Break THEN BlockEnd(src, i + 1) ELSE i

\* the blocks of src from index i on (1-based), in document order
RECURSIVE ScanBlocks(_, _)
ScanBlocks(src, i) ==
  IF i > Len(src) THEN <<>>
  ELSE IF src[i] = Break THEN ScanBlocks(src, i + 1)
  ELSE LET j == BlockEnd(src, i)
       IN  <<[type |-> "paragraph", offset |-> i - 1,
              text |-> SubSeq(src, i, j)]>> \o ScanBlocks(src, j + 1)

\* parser.parse(source).children
Parse(source) == ScanBlocks(source, 1)

\* --------------------------------------------------------------- arrays
\* a fresh array object: its identity differs from every live array
NewRef(live) == CHOOSE r \in 0..Cardinality(live) : r \notin live

\* ============================================================== session
Null == -1

getOffset(value) == IF value \in Nat THEN value ELSE Null

\* the session's closure state right after `const state = {...}`;
\* spans logs the texts handed to the parser during one operation
BlankSession(ref) ==
  [committedBlocks |-> [ref |-> ref, items |-> <<>>],
   bufferBlocks    |-> <<>>,
   version         |-> 0,
   cursor          |-> 0,
   done            |-> FALSE,
   bufferSource    |-> <<>>,
   spans           |-> <<>>]

\* array.push(...blocks): the array object is kept, its contents grow
push_assign(array, blocks) == [array EXCEPT !.items = blocks]

push(array, blocks) == [array EXCEPT !.items = @ \o blocks]

\* nodes.slice(0, nodes.length - 1)
committedSlice_all(nodes) == nodes

committedSlice(nodes) == SubSeq(nodes, 1, Len(nodes) - 1)

\* state.bufferBlocks = [block]: a new one-element array replaces the old
setBuffer_push(bufferBlocks, block) == Append(bufferBlocks, block)

setBuffer(bufferBlocks, block) == <<block>>

\* promoteBlocks counting one version per promoted block
promoteBlocks_versionPerBlock(s, nodes, finalize) ==
  IF Len(nodes) = 0 THEN
    IF finalize
    THEN [s EXCEPT !.bufferBlocks = <<>>, !.bufferSource = <<>>,
                   !.done = TRUE, !.version = @ + 1]
    ELSE [s EXCEPT !.bufferBlocks = <<>>]
  ELSE IF finalize THEN
    [s EXCEPT !.committedBlocks = push(@, nodes),
              !.bufferBlocks = <<>>, !.bufferSource = <<>>,
              !.done = TRUE, !.version = @ + 1]
  ELSE IF Len(nodes) = 1 THEN
    [s EXCEPT !.bufferBlocks = setBuffer(@, nodes[1])]
  ELSE
    LET latest == nodes[Len(nodes)]
        start  == getOffset(latest.offset)
    IN  [s EXCEPT !.committedBlocks = push(@, committedSlice(nodes)),
                  !.bufferBlocks = setBuffer(@, latest),
                  !.bufferSource = IF start # Null THEN Slice(@, start) ELSE @,
                  !.version = @ + Len(nodes) - 1]

\* promoteBlocks that leaves the text of promoted blocks in bufferSource
promoteBlocks_keepSource(s, nodes, finalize) ==
  IF Len(nodes) = 0 THEN
    IF finalize
    THEN [s EXCEPT !.bufferBlocks = <<>>, !.bufferSource = <<>>,
                   !.done = TRUE, !.version = @ + 1]
    ELSE [s EXCEPT !.bufferBlocks = <<>>]
  ELSE IF finalize THEN
    [s EXCEPT !.committedBlocks = push(@, nodes),
              !.bufferBlocks = <<>>, !.bufferSource = <<>>,
              !.done = TRUE, !.version = @ + 1]
  ELSE IF Len(nodes) = 1 THEN
    [s EXCEPT !.bufferBlocks = setBuffer(@, nodes[1])]
  ELSE
    LET latest == nodes[Len(nodes)]
        start  == getOffset(latest.offset)
    IN  [s EXCEPT !.committedBlocks = push(@, committedSlice(nodes)),
                  !.bufferBlocks = setBuffer(@, latest),
                  !.version = @ + 1]

promoteBlocks(s, nodes, finalize) ==
  IF Len(nodes) = 0 THEN
    IF finalize
    THEN [s EXCEPT !.bufferBlocks = <<>>, !.bufferSource = <<>>,
                   !.done = TRUE, !.version = @ + 1]
    ELSE [s EXCEPT !.bufferBlocks = <<>>]
  ELSE IF finalize THEN
    [s EXCEPT !.committedBlocks = push(@, nodes),
              !.bufferBlocks = <<>>, !.bufferSource = <<>>,
              !.done = TRUE, !.version = @ + 1]
  ELSE IF Len(nodes) = 1 THEN
    [s EXCEPT !.bufferBlocks = setBuffer(@, nodes[1])]
  ELSE
    LET latest == nodes[Len(nodes)]
        start  == getOffset(latest.offset)
    IN  [s EXCEPT !.committedBlocks = push(@, committedSlice(nodes)),
                  !.bufferBlocks = setBuffer(@, latest),
                  !.bufferSource = IF start # Null THEN Slice(@, start) ELSE @,
                  !.version = @ + 1]

\* parseBuffer that hands no block to promoteBlocks on a finalize
parseBuffer_finalizeDropsBlocks(s, finalize) ==
  IF Len(s.bufferSource) = 0 THEN
    LET s1 == IF ~finalize THEN [s EXCEPT !.bufferBlocks = <<>>] ELSE s
        s2 == IF finalize /\ Len(s1.bufferBlocks) > 0
              THEN [s1 EXCEPT !.committedBlocks = push(@, s1.bufferBlocks),
                              !.bufferBlocks = <<>>,
                              !.version = @ + 1]
              ELSE s1
    IN  IF finalize THEN [s2 EXCEPT !.done = TRUE] ELSE s2
  ELSE
    promoteBlocks([s EXCEPT !.spans = Append(@, s.bufferSource)],
                  IF finalize THEN <<>> ELSE Parse(s.bufferSource), finalize)

parseBuffer(s, finalize) ==
  IF Len(s.bufferSource) = 0 THEN
    LET s1 == IF ~finalize THEN [s EXCEPT !.bufferBlocks = <<>>] ELSE s
        s2 == IF finalize /\ Len(s1.bufferBlocks) > 0
              THEN [s1 EXCEPT !.committedBlocks = push(@, s1.bufferBlocks),
                              !.bufferBlocks = <<>>,
                              !.version = @ + 1]
              ELSE s1
    IN  IF finalize THEN [s2 EXCEPT !.done = TRUE] ELSE s2
  ELSE
    promoteBlocks([s EXCEPT !.spans = Append(@, s.bufferSource)],
                  Parse(s.bufferSource), finalize)

\* ingest without the early return on an empty text
ingest_parsesEmpty(s, text) ==
  parseBuffer([s EXCEPT !.bufferSource = @ \o text,
                        !.cursor = @ + Len(text)], FALSE)

\* ingest that replaces the pending text by the new text
ingest_replacePending(s, text) ==
  IF Len(text) = 0 THEN s
  ELSE parseBuffer([s EXCEPT !.bufferSource = text,
                             !.cursor = @ + Len(text)], FALSE)

\* ingest that counts every non-empty write as a new version
ingest_countsWrites(s, text) ==
  IF Len(text) = 0 THEN s
  ELSE [parseBuffer([s EXCEPT !.bufferSource = @ \o text,
                              !.cursor = @ + Len(text)], FALSE)
          EXCEPT !.version = s.version + 1]

ingest(s, text) ==
  IF Len(text) = 0 THEN s
  ELSE parseBuffer([s EXCEPT !.bufferSource = @ \o text,
                             !.cursor = @ + Len(text)], FALSE)

\* finalizeSession with the extra suffix counted but not appended
finalizeSession_dropExtra(s, extra) ==
  IF s.done THEN s
  ELSE LET s1 == IF Len(extra) > 0
                 THEN [s EXCEPT !.cursor = @ + Len(extra)]
                 ELSE s
       IN  [parseBuffer(s1, TRUE) EXCEPT !.bufferSource = <<>>]

\* finalizeSession that appends extra without advancing the cursor
finalizeSession_uncountedExtra(s, extra) ==
  IF s.done THEN s
  ELSE LET s1 == IF Len(extra) > 0
                 THEN [s EXCEPT !.bufferSource = @ \o extra]
                 ELSE s
       IN  [parseBuffer(s1, TRUE) EXCEPT !.bufferSource = <<>>]

\* finalizeSession without its early return on a done session
finalizeSession_noDoneGuard(s, extra) ==
  LET s1 == IF Len(extra) > 0
            THEN [s EXCEPT !.bufferSource = @ \o extra,
                           !.cursor = @ + Len(extra)]
            ELSE s
  IN  [parseBuffer(s1, TRUE) EXCEPT !.bufferSource = <<>>]

\* returns the state after the call; the value returned to the caller is
\* snapshot() of that state
finalizeSession(s, extra) ==
  IF s.done THEN s
  ELSE LET s1 == IF Len(extra) > 0
                 THEN [s EXCEPT !.bufferSource = @ \o extra,
                                !.cursor = @ + Len(extra)]
                 ELSE s
       IN  [parseBuffer(s1, TRUE) EXCEPT !.bufferSource = <<>>]

\* reset that clears everything but the committed blocks
reset_keepCommitted(s, init) ==
  LET s0 == [BlankSession(NewRef({s.committedBlocks.ref}))
               EXCEPT !.spans = s.spans,
                      !.committedBlocks.items = s.committedBlocks.items]
      s1 == IF Len(init.value) > 0 THEN ingest(s0, init.value) ELSE s0
  IN  IF init.done THEN finalizeSession(s1, <<>>) ELSE s1

\* reset that seeds the value but never finalizes
reset_ignoreDone(s, init) ==
  LET s0 == [BlankSession(NewRef({s.committedBlocks.ref}))
               EXCEPT !.spans = s.spans]
  IN  IF Len(init.value) > 0 THEN ingest(s0, init.value) ELSE s0

\* init is [value, done]; an absent init, value or done behaves as the
\* empty value and done = false
reset(s, init) ==
  LET s0 == [BlankSession(NewRef({s.committedBlocks.ref}))
               EXCEPT !.spans = s.spans]
      s1 == IF Len(init.value) > 0 THEN ingest(s0, init.value) ELSE s0
  IN  IF init.done THEN finalizeSession(s1, <<>>) ELSE s1

\* write that returns early on an empty chunk, before the done check
write_emptyBypass(s, chunk) ==
  IF Len(chunk) = 0 THEN [threw |-> FALSE, state |-> s]
  ELSE IF s.done THEN [threw |-> TRUE, state |-> s]
  ELSE [threw |-> FALSE, state |-> ingest(s, chunk)]

\* write that restarts a finalized session instead of throwing
write_implicitReset(s, chunk) ==
  IF s.done
  THEN [threw |-> FALSE, state |-> reset(s, [value |-> chunk, done |-> FALSE])]
  ELSE [threw |-> FALSE, state |-> ingest(s, chunk)]

\* write either throws (threw = TRUE, state untouched) or ingests
write(s, chunk) ==
  IF s.done THEN [threw |-> TRUE, state |-> s]
  ELSE [threw |-> FALSE, state |-> ingest(s, chunk)]

snapshot(s) ==
  [committedBlocks |-> s.committedBlocks,
   bufferBlocks    |-> s.bufferBlocks,
   version         |-> s.version,
   cursor          |-> s.cursor,
   done            |-> s.done]

SessionInits == [value : Texts, done : BOOLEAN]

createSession(initial) ==
  IF initial = <<>> THEN BlankSession(0)
  ELSE reset(BlankSession(0), initial[1])


\* ========================================================= merge engine
\* `previous` of the first call (useDerivedState's empty stateRef)
Undefined == [undefined |-> TRUE]

\* bufferStart taking the start offset for a 1-based position
\* bufferStart that ignores the reported offset and answers the fallback
bufferStart_fallbackOnly(node, fallback) == fallback

bufferStart_oneBased(node, fallback) ==
  IF node # <<>> /\ node[1].offset \in Nat THEN node[1].offset - 1
  ELSE fallback

\* a nullable block is a sequence of length 0 (null) or 1
bufferStart(node, fallback) ==
  IF node # <<>> /\ node[1].offset \in Nat THEN node[1].offset ELSE fallback

parseNodes(source) ==
  IF Len(source) = 0 THEN <<>> ELSE Parse(source)

\* the spans parseNodes hands to the parser for this source
parseNodesSpans(source) ==
  IF Len(source) = 0 THEN <<>> ELSE <<source>>

\* the committed array after an extension: a new array when blocks are
\* appended ([...previous, ...ready], or ready itself when previous is
\* empty), otherwise the previous array object
nextCommitted_pushInPlace(previousBlocks, ready, fresh) ==
  [ref |-> previousBlocks.ref, items |-> previousBlocks.items \o ready]

nextCommitted_dropPrevious(previousBlocks, ready, fresh) ==
  IF Len(ready) > 0
  THEN [ref |-> fresh, items |-> ready]
  ELSE previousBlocks

nextCommitted_alwaysCopy(previousBlocks, ready, fresh) ==
  [ref |-> fresh, items |-> previousBlocks.items \o ready]

nextCommitted(previousBlocks, ready, fresh) ==
  IF Len(ready) > 0
  THEN [ref |-> fresh, items |-> previousBlocks.items \o ready]
  ELSE previousBlocks

\* applyFromScratch that restarts the version at 0 on every rebuild
applyFromScratch_versionZero(source, chunks, done, nextVersion, live) ==
  LET nodes == parseNodes(source)
      fresh == NewRef(live)
      committedBlocks ==
        IF done THEN [ref |-> fresh, items |-> nodes]
        ELSE IF Len(nodes) <= 1 THEN [ref |-> fresh, items |-> <<>>]
        ELSE [ref |-> fresh, items |-> SubSeq(nodes, 1, Len(nodes) - 1)]
      bufferBlock ==
        IF done \/ Len(nodes) = 0 THEN <<>> ELSE <<nodes[Len(nodes)]>>
      cursor ==
        IF done \/ Len(nodes) = 0 THEN Len(source)
        ELSE bufferStart(bufferBlock, Len(source))
  IN  [state |-> [chunks          |-> chunks,
                  text            |-> source,
                  cursor          |-> cursor,
                  version         |-> 0,
                  committedBlocks |-> committedBlocks,
                  bufferBlock     |-> bufferBlock,
                  done            |-> done],
       committedBlocks |-> committedBlocks,
       bufferBlock     |-> bufferBlock,
       spans           |-> parseNodesSpans(source)]

\* live: identities of the arrays the caller still holds; every array
\* built here (a literal, parser output or slice) is a fresh object
applyFromScratch(source, chunks, done, nextVersion, live) ==
  LET nodes == parseNodes(source)
      fresh == NewRef(live)
      committedBlocks ==
        IF done THEN [ref |-> fresh, items |-> nodes]
        ELSE IF Len(nodes) <= 1 THEN [ref |-> fresh, items |-> <<>>]
        ELSE [ref |-> fresh, items |-> SubSeq(nodes, 1, Len(nodes) - 1)]
      bufferBlock ==
        IF done \/ Len(nodes) = 0 THEN <<>> ELSE <<nodes[Len(nodes)]>>
      cursor ==
        IF done \/ Len(nodes) = 0 THEN Len(source)
        ELSE bufferStart(bufferBlock, Len(source))
  IN  [state |-> [chunks          |-> chunks,
                  text            |-> source,
                  cursor          |-> cursor,
                  version         |-> nextVersion,
                  committedBlocks |-> committedBlocks,
                  bufferBlock     |-> bufferBlock,
                  done            |-> done],
       committedBlocks |-> committedBlocks,
       bufferBlock     |-> bufferBlock,
       spans           |-> parseNodesSpans(source)]

\* the result of the no-op path: the fields of the previous state with a
\* copy of the input chunks, no parse
returnPrevious_copyCommitted(previous, targetChunks) ==
  LET copy == [ref   |-> NewRef({previous.committedBlocks.ref}),
               items |-> previous.committedBlocks.items]
  IN  [state |-> [chunks          |-> targetChunks,
                  text            |-> previous.text,
                  cursor          |-> previous.cursor,
                  version         |-> previous.version,
                  committedBlocks |-> copy,
                  bufferBlock     |-> previous.bufferBlock,
                  done            |-> previous.done],
       committedBlocks |-> copy,
       bufferBlock     |-> previous.bufferBlock,
       spans           |-> <<>>]

returnPrevious(previous, targetChunks) ==
  [state |-> [chunks          |-> targetChunks,
              text            |-> previous.text,
              cursor          |-> previous.cursor,
              version         |-> previous.version,
              committedBlocks |-> previous.committedBlocks,
              bufferBlock     |-> previous.bufferBlock,
              done            |-> previous.done],
   committedBlocks |-> previous.committedBlocks,
   bufferBlock     |-> previous.bufferBlock,
   spans           |-> <<>>]

\* a join that puts a separator between the chunks
RECURSIVE JoinWith(_, _)
JoinWith(chunks, separator) ==
  IF chunks = <<>> THEN <<>>
  ELSE IF Len(chunks) = 1 THEN Head(chunks)
  ELSE Head(chunks) \o separator \o JoinWith(Tail(chunks), separator)

joinChunks_separated(chunks) == JoinWith(chunks, <<Break>>)

\* targetChunks.join('')
joinChunks(chunks) == Join(chunks)

\* a suffix that holds only the text added since the previous call
resumeSuffix_addedText(mergedText, previous) ==
  Slice(mergedText, Len(previous.text))

\* the text the extension path parses: everything from the resume offset
\* on, the previous buffer block included
resumeSuffix(mergedText, previous) == Slice(mergedText, previous.cursor)

\* an extension that counts every promotion as a new version
extensionVersion_bumpOnPromote(previous, ready) ==
  IF Len(ready) > 0 THEN previous.version + 1 ELSE previous.version

\* the version of the state built on the extension path: ready (the blocks
\* promoted by the call) plays no part
extensionVersion(previous, ready) == previous.version

\* the result carries, next to the returned fields, the spans handed to
\* the parser during the call
mergeMarkdownState(previous, input) ==
  LET targetChunks == input.chunks
      mergedText   == joinChunks(targetChunks)
      done         == input.done
  IN
  IF previous = Undefined THEN
    applyFromScratch(mergedText, targetChunks, done, 0, {})
  ELSE IF mergedText = previous.text /\ done = previous.done THEN
    returnPrevious(previous, targetChunks)
  ELSE IF ~(StartsWith(mergedText, previous.text)
            /\ Len(mergedText) >= Len(previous.text)) THEN
    applyFromScratch(mergedText, targetChunks, done, previous.version + 1,
                     {previous.committedBlocks.ref})
  ELSE
    LET suffix == resumeSuffix(mergedText, previous) IN
    IF Len(suffix) = 0 /\ done = previous.done THEN
      [state |-> [chunks          |-> targetChunks,
                  text            |-> mergedText,
                  cursor          |-> previous.cursor,
                  version         |-> previous.version,
                  committedBlocks |-> previous.committedBlocks,
                  bufferBlock     |-> previous.bufferBlock,
                  done            |-> done],
       committedBlocks |-> previous.committedBlocks,
       bufferBlock     |-> previous.bufferBlock,
       spans           |-> <<>>]
    ELSE
      LET nodes == parseNodes(suffix)
          fresh == NewRef({previous.committedBlocks.ref})
          ready == IF done THEN nodes
                   ELSE IF Len(nodes) <= 1 THEN <<>>
                   ELSE SubSeq(nodes, 1, Len(nodes) - 1)
          committedBlocks ==
            nextCommitted(previous.committedBlocks, ready, fresh)
          bufferBlock ==
            IF done \/ Len(nodes) = 0 THEN <<>> ELSE <<nodes[Len(nodes)]>>
          cursor ==
            IF done \/ Len(nodes) = 0 THEN Len(mergedText)
            ELSE previous.cursor + bufferStart(bufferBlock, Len(suffix))
      IN  [state |-> [chunks          |-> targetChunks,
                      text            |-> mergedText,
                      cursor          |-> cursor,
                      version         |-> extensionVersion(previous, ready),
                      committedBlocks |-> committedBlocks,
                      bufferBlock     |-> bufferBlock,
                      done            |-> done],
           committedBlocks |-> committedBlocks,
           bufferBlock     |-> bufferBlock,
           spans           |-> parseNodesSpans(suffix)]

\* the branch of mergeMarkdownState a call takes
mergePath(previous, input) ==
  LET mergedText == joinChunks(input.chunks) IN
  IF previous = Undefined THEN "scratch"
  ELSE IF mergedText = previous.text /\ input.done = previous.done THEN "noop"
  ELSE IF ~StartsWith(mergedText, previous.text) THEN "divergence"
  ELSE "extension"

\* ============================================================ component
\* most chunks in a chunks prop, longest content prop
MaxChunks == 2
MaxContent == 2

\* the chunk lists and content strings a parent passes
ChunkLists == UNION {[1..n -> {<<c>> : c \in Chars}] : n \in 0..MaxChunks}
ContentStrings == UNION {[1..n -> Chars] : n \in 0..MaxContent}

\* props of the component; an optional content is a sequence of length 0
\* (absent) or 1. The variant with the streaming flag takes no complete
\* and no content in streaming mode
StableProps == [mode : {"stable"}, content : ContentStrings]
StreamingProps(variant) ==
  IF variant = "component"
  THEN [mode : {"streaming"}, chunks : ChunkLists, complete : {FALSE},
        content : {<<>>}]
  ELSE [mode : {"streaming"}, chunks : ChunkLists, complete : BOOLEAN,
        content : {<<>>} \cup {<<c>> : c \in ContentStrings}]
Props(variant) == StableProps \cup StreamingProps(variant)

\* prevRef.current before the first effect
PrevNone == [mode |-> "none"]

\* a session while an effect runs: its state, the calls made on it so far
\* and whether one of them raised
Run(session) == [session |-> session, calls |-> <<>>, threw |-> FALSE]

SessionCall(op, arg, argDone) == [op |-> op, arg |-> arg, argDone |-> argDone]

doReset(r, value, done) ==
  [r EXCEPT !.session = reset(@, [value |-> value, done |-> done]),
            !.calls = Append(@, SessionCall("reset", value, done))]

\* session.finalize(suffix), or session.finalize() with an empty suffix
doFinalize(r, suffix) ==
  [r EXCEPT !.session = finalizeSession(@, suffix),
            !.calls = Append(@, SessionCall("finalize", suffix, FALSE))]

doWrite(r, chunk) ==
  LET w == write(r.session, chunk)
  IN  [session |-> w.state,
       calls   |-> Append(r.calls, SessionCall("write", chunk, FALSE)),
       threw   |-> w.threw]

\* for (index = prev.chunks.length; index < chunks.length; index += 1)
\*   session.write(chunks[index]); a raise ends the loop and the effect
RECURSIVE writeFrom(_, _, _)
writeFrom(r, chunks, index) ==
  IF index > Len(chunks) \/ r.threw THEN r
  ELSE writeFrom(doWrite(r, chunks[index]), chunks, index + 1)

\* needsReset comparing only the lengths of the chunk arrays
needsReset_lengthOnly(prev, chunks) ==
  \/ prev.mode # "streaming"
  \/ Len(chunks) < Len(prev.chunks)

needsReset(prev, chunks) ==
  \/ prev.mode # "streaming"
  \/ Len(chunks) < Len(prev.chunks)
  \/ \E index \in 1..Len(prev.chunks) : chunks[index] # prev.chunks[index]

\* both variants; with complete = false and no content the second variant
\* runs exactly the statements of the first
applyStreamingProps(session, prev, props) ==
  LET chunks == props.chunks
      joined == Join(chunks)
      stableContent == props.content
      truthy == stableContent # <<>> /\ Len(stableContent[1]) > 0
      previousStable ==
        IF prev.mode = "streaming" THEN prev.latestStable ELSE <<>>
      r1 == IF needsReset(prev, chunks)
            THEN doReset(Run(session), joined, FALSE)
            ELSE writeFrom(Run(session), chunks, Len(prev.chunks) + 1)
      r2 == IF r1.threw \/ ~props.complete THEN r1
            ELSE IF truthy /\ ~StartsWith(stableContent[1], joined)
            THEN doReset(r1, stableContent[1], TRUE)
            ELSE IF ~r1.session.done
            THEN doFinalize(r1, IF truthy
                                THEN Slice(stableContent[1], Len(joined))
                                ELSE <<>>)
            ELSE r1
  IN  [run     |-> r2,
       mutated |-> r2.calls # <<>>,
       next    |-> [mode         |-> "streaming",
                    chunks       |-> chunks,
                    text         |-> joined,
                    complete     |-> props.complete,
                    latestStable |-> IF stableContent # <<>>
                                     THEN stableContent
                                     ELSE previousStable]]

\* applyStableProps that leaves prevRef on the streaming record
applyStableProps_keepStreamingPrev(session, prev, props) ==
  LET content == props.content
      r0 == Run(session)
      r1 == IF prev.mode = "streaming" THEN
              IF StartsWith(content, prev.text) THEN
                IF ~session.done
                THEN doFinalize(r0, Slice(content, Len(prev.text)))
                ELSE r0
              ELSE doReset(r0, content, TRUE)
            ELSE IF prev.mode # "stable" \/ prev.content # content
            THEN doReset(r0, content, TRUE)
            ELSE IF ~session.done THEN doFinalize(r0, <<>>)
            ELSE r0
  IN  [run     |-> r1,
       mutated |-> r1.calls # <<>>,
       next    |-> IF prev.mode = "streaming" THEN prev
                   ELSE [mode |-> "stable", content |-> content]]

\* applyStableProps that finalizes without the remaining suffix
applyStableProps_dropSuffix(session, prev, props) ==
  LET content == props.content
      r0 == Run(session)
      r1 == IF prev.mode = "streaming" THEN
              IF StartsWith(content, prev.text) THEN
                IF ~session.done
                THEN doFinalize(r0, <<>>)
                ELSE r0
              ELSE doReset(r0, content, TRUE)
            ELSE IF prev.mode # "stable" \/ prev.content # content
            THEN doReset(r0, content, TRUE)
            ELSE IF ~session.done THEN doFinalize(r0, <<>>)
            ELSE r0
  IN  [run     |-> r1,
       mutated |-> r1.calls # <<>>,
       next    |-> [mode |-> "stable", content |-> content]]

applyStableProps(session, prev, props) ==
  LET content == props.content
      r0 == Run(session)
      r1 == IF prev.mode = "streaming" THEN
              IF StartsWith(content, prev.text) THEN
                IF ~session.done
                THEN doFinalize(r0, Slice(content, Len(prev.text)))
                ELSE r0
              ELSE doReset(r0, content, TRUE)
            ELSE IF prev.mode # "stable" \/ prev.content # content
            THEN doReset(r0, content, TRUE)
            ELSE IF ~session.done THEN doFinalize(r0, <<>>)
            ELSE r0
  IN  [run     |-> r1,
       mutated |-> r1.calls # <<>>,
       next    |-> [mode |-> "stable", content |-> content]]

\* the body of the component's effect
effect(session, prev, props) ==
  IF props.mode = "streaming"
  THEN applyStreamingProps(session, prev, props)
  ELSE applyStableProps(session, prev, props)

\* the first render (sessionRef.current === null) followed by its effect
mount(props) ==
  IF props.mode = "streaming"
  THEN effect(createSession(<<>>), PrevNone, props)
  ELSE effect(createSession(<<[value |-> props.content, done |-> TRUE]>>),
              [mode |-> "stable", content |-> props.content], props)

\* ================================================================ state
VARIABLES
  engine,           \* what the caller drives: "session", "merge", or a
                    \* MarkdownStream component: "component" (streaming
                    \* flag) or "componentComplete" (mode/complete props)
  committedBlocks,  \* session: state.committedBlocks, an array [ref, items]
  bufferBlocks,     \* session: state.bufferBlocks
  version,          \* session: state.version
  cursor,           \* session: state.cursor
  done,             \* session: state.done
  bufferSource,     \* session: the pending text
  returned,         \* session: the snapshot the last call returned
  stateRef,         \* merge: useDerivedState's stateRef.current
  prevRef,          \* component: prevRef.current
  calls,            \* component: the session calls of the last effect
  last              \* the last call: operation, arguments, outcome

vars == <<engine, committedBlocks, bufferBlocks, version, cursor, done,
          bufferSource, returned, stateRef, prevRef, calls, last>>

NoSnapshot == [none |-> TRUE]

\* the session's closure state as a record
Session ==
  [committedBlocks |-> committedBlocks,
   bufferBlocks    |-> bufferBlocks,
   version         |-> version,
   cursor          |-> cursor,
   done            |-> done,
   bufferSource    |-> bufferSource,
   spans           |-> <<>>]

SetSession(s) ==
  /\ committedBlocks' = s.committedBlocks
  /\ bufferBlocks' = s.bufferBlocks
  /\ version' = s.version
  /\ cursor' = s.cursor
  /\ done' = s.done
  /\ bufferSource' = s.bufferSource

\* what a call leaves in `last`: argLen is the length of its text argument,
\* argDone the done flag of its argument (init.done, input.done; FALSE
\* when the call takes none), threw whether it raised, wasDone the done
\* flag before the call, path the merge branch taken, spans the texts
\* handed to the parser, in call order
Call(op, arg, argDone, threw, wasDone, path, spans) ==
  [op |-> op, argLen |-> Len(arg), argDone |-> argDone, threw |-> threw,
   wasDone |-> wasDone, path |-> path, spans |-> spans]

\* stateRef.current?.state
previousState == IF stateRef = Undefined THEN Undefined ELSE stateRef.state

Init ==
  /\ engine \in {"session", "merge"}
  /\ stateRef = Undefined
  /\ prevRef = PrevNone
  /\ calls = <<>>
  /\ returned = NoSnapshot
  /\ \E initial \in {<<>>} \cup {<<i>> : i \in SessionInits} :
       LET s == IF engine = "session" THEN createSession(initial)
                ELSE BlankSession(0)
       IN  /\ engine = "merge" => initial = <<>>
           /\ committedBlocks = s.committedBlocks
           /\ bufferBlocks = s.bufferBlocks
           /\ version = s.version
           /\ cursor = s.cursor
           /\ done = s.done
           /\ bufferSource = s.bufferSource
           /\ last = IF engine = "merge"
                     THEN Call("none", <<>>, FALSE, FALSE, FALSE, "", <<>>)
                     ELSE IF initial = <<>>
                     THEN Call("create", <<>>, FALSE, FALSE, FALSE, "", s.spans)
                     ELSE Call("create", initial[1].value, initial[1].done,
                               FALSE, FALSE, "", s.spans)

\* -------------------------------------------------------------- actions
\* session.write(chunk)
Write ==
  /\ engine = "session"
  /\ \E chunk \in Texts :
       /\ done \/ cursor + Len(chunk) <= MaxLen
       /\ \E r \in {write(Session, chunk)} :
            /\ SetSession(r.state)
            /\ returned' = IF r.threw THEN returned ELSE snapshot(r.state)
            /\ last' = Call("write", chunk, FALSE, r.threw, done, "",
                        r.state.spans)
  /\ UNCHANGED <<engine, stateRef, prevRef, calls>>

\* session.finalize(extra); an absent extra behaves as the empty string
Finalize ==
  /\ engine = "session"
  /\ \E extra \in Texts :
       /\ done \/ cursor + Len(extra) <= MaxLen
       /\ \E s \in {finalizeSession(Session, extra)} :
            /\ SetSession(s)
            /\ returned' = snapshot(s)
            /\ last' = Call("finalize", extra, FALSE, FALSE, done, "",
                        s.spans)
  /\ UNCHANGED <<engine, stateRef, prevRef, calls>>

\* session.reset(init)
Reset ==
  /\ engine = "session"
  /\ \E init \in SessionInits :
       \E s \in {reset(Session, init)} :
         /\ SetSession(s)
         /\ returned' = snapshot(s)
         /\ last' = Call("reset", init.value, init.done, FALSE, done, "",
                     s.spans)
  /\ UNCHANGED <<engine, stateRef, prevRef, calls>>

\* session.snapshot()
Snapshot ==
  /\ engine = "session"
  /\ returned' = snapshot(Session)
  /\ last' = Call("snapshot", <<>>, FALSE, FALSE, done, "", <<>>)
  /\ UNCHANGED <<engine, committedBlocks, bufferBlocks, version, cursor,
                 done, bufferSource, stateRef, prevRef, calls>>

\* the inputs a caller passes: the running text as one chunk (the engine
\* reads the chunk list only through join)
MergeInputs == [chunks : {<<t>> : t \in Texts}, done : BOOLEAN]

\* one render of the deriving component:
\* stateRef.current = mergeMarkdownState(stateRef.current?.state, input)
Merge ==
  /\ engine = "merge"
  /\ \E input \in MergeInputs :
       \E path \in {mergePath(previousState, input)} :
         /\ path = "divergence" => previousState.version < MaxVersion
         /\ \E r \in {mergeMarkdownState(previousState, input)} :
              /\ stateRef' = [state |-> r.state,
                              committedBlocks |-> r.committedBlocks,
                              bufferBlock |-> r.bufferBlock]
              /\ last' = Call("merge", Join(input.chunks), input.done, FALSE,
                              IF previousState = Undefined THEN FALSE
                              ELSE previousState.done,
                              path, r.spans)
  /\ UNCHANGED <<engine, committedBlocks, bufferBlocks, version, cursor,
                 done, bufferSource, returned, prevRef, calls>>

Next == Write \/ Finalize \/ Reset \/ Snapshot \/ Merge

Spec == Init /\ [][Next]_vars

\* ------------------------------------------ a session that is only written
\* longest text a session holds when it receives nothing but writes
MaxWide == 5

WideTexts == UNION {[1..n -> Chars] : n \in 0..MaxWide}

\* createSession(initial)
InitWide == Init /\ engine = "session"

\* session.write(chunk), chunks of up to MaxWide characters
WriteWide ==
  /\ engine = "session"
  /\ \E chunk \in WideTexts :
       /\ done \/ cursor + Len(chunk) <= MaxWide
       /\ \E r \in {write(Session, chunk)} :
            /\ SetSession(r.state)
            /\ returned' = IF r.threw THEN returned ELSE snapshot(r.state)
            /\ last' = Call("write", chunk, FALSE, r.threw, done, "",
                        r.state.spans)
  /\ UNCHANGED <<engine, stateRef, prevRef, calls>>

SpecWide == InitWide /\ [][WriteWide]_vars

\* ------------------------------------- a parser that rejects the span
\* write(chunk) when parser.parse throws: ingest has appended the chunk to
\* bufferSource and advanced the cursor, parseBuffer hands the span to the
\* parser, and the exception leaves parseBuffer, ingest and write uncaught
writeParseFailure(s, chunk) ==
  IF s.done THEN [threw |-> TRUE, state |-> s]
  ELSE IF Len(chunk) = 0 THEN [threw |-> FALSE, state |-> s]
  ELSE [threw |-> TRUE,
        state |-> [s EXCEPT !.bufferSource = @ \o chunk,
                            !.cursor = @ + Len(chunk),
                            !.spans = Append(@, s.bufferSource \o chunk)]]

\* session.write(chunk) during which the parser signals a failure
WriteParseFailure ==
  /\ engine = "session"
  /\ ~done
  /\ \E chunk \in WideTexts \ {<<>>} :
       /\ cursor + Len(chunk) <= MaxWide
       /\ \E r \in {writeParseFailure(Session, chunk)} :
            /\ SetSession(r.state)
            /\ returned' = IF r.threw THEN returned ELSE snapshot(r.state)
            /\ last' = Call("write", chunk, FALSE, r.threw, done, "",
                        r.state.spans)
  /\ UNCHANGED <<engine, stateRef, prevRef, calls>>

SpecFail == InitWide /\ [][WriteWide \/ WriteParseFailure]_vars

\* ---------------------------------------------- the MarkdownStream component
\* a component of the given variant after its first render and first
\* effect
Mounted(variant) ==
  /\ engine = variant
  /\ stateRef = Undefined
  /\ \E props \in Props(engine) :
       \E result \in {mount(props)} :
         /\ committedBlocks = result.run.session.committedBlocks
         /\ bufferBlocks = result.run.session.bufferBlocks
         /\ version = result.run.session.version
         /\ cursor = result.run.session.cursor
         /\ done = result.run.session.done
         /\ bufferSource = result.run.session.bufferSource
         /\ prevRef = result.next
         /\ calls = result.run.calls
         /\ returned = snapshot(result.run.session)
         /\ last = Call("mount", <<>>, FALSE, FALSE, FALSE, "", <<>>)

\* a render with new props whose effect runs; when a session call raises,
\* the effect ends there: prevRef and snapshotRef keep their values and the
\* component takes no further update
Effect ==
  /\ engine \in {"component", "componentComplete"}
  /\ ~last.threw
  /\ \E props \in Props(engine) :
       \E result \in {effect(Session, prevRef, props)} :
         /\ SetSession(result.run.session)
         /\ calls' = result.run.calls
         /\ prevRef' = IF result.run.threw THEN prevRef ELSE result.next
         /\ returned' = IF result.run.threw THEN returned
                        ELSE snapshot(result.run.session)
         /\ last' = Call("effect", <<>>, FALSE, result.run.threw, done, "",
                         <<>>)
  /\ UNCHANGED <<engine, stateRef>>

\* the variant with the streaming flag
InitComp == Mounted("component")

SpecComp == InitComp /\ [][Effect]_vars

\* the variant with the mode and complete props
InitComplete == Mounted("componentComplete")

SpecComplete == InitComplete /\ [][Effect]_vars

\* --------------------------------------------------- directive rendering
\* directive names: remark-directive accepts any identifier, among them
\* the names of the properties every object inherits from Object.prototype
ObjectPrototype == {"toString", "constructor"}
DirectiveNames == {"", "note", "warning"} \cup ObjectPrototype

\* an optional value is a sequence of length 0 (undefined) or 1
Optional(values) == {<<>>} \cup {<<v>> : v \in values}

\* props of a DirectiveMarker element
DirectiveMarkerProps ==
  [name          : Optional(DirectiveNames),
   directiveType : {"containerDirective", "leafDirective", "textDirective"},
   children      : Optional({"child"})]

\* a directives map is an object literal: the set of its own keys, each
\* bound to the renderer of that name
DirectiveMaps == Optional(SUBSET {"note", "toString"})

\* directives[name]: the own property, else the property inherited from
\* Object.prototype, else undefined
Lookup(own, name) ==
  IF name \in own THEN <<[renderer |-> name, own |-> TRUE]>>
  ELSE IF name \in ObjectPrototype
  THEN <<[renderer |-> name, own |-> FALSE]>>
  ELSE <<>>

\* the ReactNode null
NullNode == [null |-> TRUE]

\* the function that was invoked (none: <<>>) and the value returned:
\* NullNode, or what the invoked function made of the props it was given
renderDirectiveFromMap(props, directives) ==
  LET name == props.name IN
  IF name = <<>> \/ name = <<"">> \/ directives = <<>>
  THEN [invoked |-> <<>>, result |-> NullNode]
  ELSE LET renderer == Lookup(directives[1], name[1]) IN
       IF renderer = <<>>
       THEN [invoked |-> <<>>, result |-> NullNode]
       ELSE [invoked |-> renderer,
             result  |-> [by            |-> renderer[1],
                          children      |-> IF props.children = <<>>
                                            THEN "null" ELSE props.children[1],
                          directiveType |-> props.directiveType,
                          name          |-> name[1]]]

InitDirective ==
  /\ engine = "directive"
  /\ stateRef = Undefined
  /\ prevRef = PrevNone
  /\ calls = <<>>
  /\ returned = NoSnapshot
  /\ committedBlocks = BlankSession(0).committedBlocks
  /\ bufferBlocks = <<>>
  /\ version = 0
  /\ cursor = 0
  /\ done = FALSE
  /\ bufferSource = <<>>
  /\ last = [op |-> "none"]

\* one DirectiveMarker element rendered through the directives map
RenderDirective ==
  /\ engine = "directive"
  /\ \E props \in DirectiveMarkerProps, directives \in DirectiveMaps :
       \E r \in {renderDirectiveFromMap(props, directives)} :
         last' = [op         |-> "renderDirectiveFromMap",
                  props      |-> props,
                  directives |-> directives,
                  invoked    |-> r.invoked,
                  result     |-> r.result]
  /\ UNCHANGED <<engine, committedBlocks, bufferBlocks, version, cursor,
                 done, bufferSource, returned, stateRef, prevRef, calls>>

SpecDirective == InitDirective /\ [][RenderDirective]_vars


\* =============================================================== claims
\* the blocks the parser returned during the last call (none when it was
\* not invoked)
ParsedIn(call) == IF call.spans = <<>> THEN <<>> ELSE Parse(call.spans[1])

\* the text a session call handed to the parser is the pending text: the
\* old bufferSource followed by the argLen characters of the argument
IsPending(call, oldSource) ==
  /\ Len(call.spans) <= 1
  /\ LET pending == IF call.spans = <<>> THEN <<>> ELSE call.spans[1]
     IN  /\ StartsWith(pending, oldSource)
         /\ Len(pending) = Len(oldSource) + call.argLen

\* C1: over write, finalize and snapshot calls of a session (no reset) the
\* committed sequence only grows at its end: the old sequence is a prefix
\* of the new one
C1_MonotonicCommitment ==
  [][(engine = "session" /\ last'.op \in {"write", "finalize", "snapshot"})
       => /\ IsPrefix(committedBlocks.items, committedBlocks'.items)
          /\ ~last'.threw =>
               IsPrefix(committedBlocks.items, returned'.committedBlocks.items)
    ]_vars

\* a finalize appended parsed blocks behind blocks committed earlier
C1_Witness ==
  /\ engine = "session"
  /\ last.op = "finalize"
  /\ ~last.wasDone
  /\ Len(ParsedIn(last)) >= 1
  /\ Len(committedBlocks.items) > Len(ParsedIn(last))

\* C2: every session state and snapshot, and every state and result of
\* the merge engine, holds at most one buffer block
C2_BufferBound ==
  /\ Len(bufferBlocks) <= 1
  /\ returned # NoSnapshot => Len(returned.bufferBlocks) <= 1
  /\ stateRef # Undefined =>
       /\ Len(stateRef.bufferBlock) <= 1
       /\ Len(stateRef.state.bufferBlock) <= 1

\* a write replaced a buffered block by the newest block of its parse
C2_Witness ==
  /\ engine = "session"
  /\ last.op = "write"
  /\ last.wasDone = FALSE
  /\ Len(ParsedIn(last)) >= 2
  /\ Len(bufferBlocks) = 1
  /\ returned.bufferBlocks = bufferBlocks

\* the pending text of a merge call: the text from the previous cursor on
\* an extension, the whole text on a cold start or divergence
MergePending(prev, next, path) ==
  IF path = "extension" THEN Slice(next.text, prev.cursor) ELSE next.text

\* the committed blocks a merge call builds on
MergeBase(prev, path) ==
  IF path = "extension" THEN prev.committedBlocks.items ELSE <<>>

\* n parsed blocks, not finalizing: the first n-1 go behind base, the
\* n-th is the buffer
PromotesAllButNewest(nodes, base, committedItems, buffer) ==
  /\ Len(nodes) >= 2 =>
       /\ committedItems = base \o SubSeq(nodes, 1, Len(nodes) - 1)
       /\ buffer = <<nodes[Len(nodes)]>>
  /\ Len(nodes) = 1 =>
       /\ committedItems = base
       /\ buffer = <<nodes[1]>>

\* C3: a write to a not-done session, and a not-done merge that parses,
\* commits exactly the first n-1 of the n >= 2 blocks parsed from the
\* pending text, in order, and buffers the n-th; one block is only buffered
C3_PromoteAllButNewest ==
  [][/\ (engine = "session" /\ last'.op = "write" /\ ~done /\ last'.argLen > 0)
          => /\ IsPending(last', bufferSource)
             /\ Len(last'.spans) = 1
             /\ PromotesAllButNewest(ParsedIn(last'), committedBlocks.items,
                                     committedBlocks'.items, bufferBlocks')
     /\ (engine = "merge" /\ last'.op = "merge" /\ ~stateRef'.state.done
           /\ last'.path \in {"scratch", "divergence", "extension"})
          => LET nodes == Parse(MergePending(previousState, stateRef'.state,
                                             last'.path))
                 base  == MergeBase(previousState, last'.path)
             IN  /\ PromotesAllButNewest(nodes, base,
                                         stateRef'.state.committedBlocks.items,
                                         stateRef'.state.bufferBlock)
                 /\ stateRef'.committedBlocks = stateRef'.state.committedBlocks
                 /\ stateRef'.bufferBlock = stateRef'.state.bufferBlock
    ]_vars

\* a write whose parse returned two or more blocks
C3_Witness ==
  /\ engine = "session"
  /\ last.op = "write"
  /\ ~last.wasDone
  /\ ~done
  /\ Len(ParsedIn(last)) >= 2
  /\ Len(committedBlocks.items) >= 1

\* C4: finalize(extra) on a not-done session leaves it done with an empty
\* buffer and with the old committed sequence followed by every block
\* parsed from the pending text (old pending text plus extra), also when
\* that is no block at all
C4_FinalizeFlushes ==
  [][(engine = "session" /\ last'.op = "finalize" /\ ~done)
       => /\ IsPending(last', bufferSource)
          /\ cursor' = cursor + last'.argLen
          /\ done'
          /\ bufferBlocks' = <<>>
          /\ committedBlocks'.items = committedBlocks.items \o ParsedIn(last')
          /\ returned' = snapshot(Session')
    ]_vars

\* a finalize with a non-empty extra flushed blocks behind earlier ones
C4_Witness ==
  /\ engine = "session"
  /\ last.op = "finalize"
  /\ ~last.wasDone
  /\ last.argLen > 0
  /\ Len(ParsedIn(last)) >= 1
  /\ Len(committedBlocks.items) > Len(ParsedIn(last))
  /\ done

\* C5: finalize on a done session changes nothing, whatever extra it is
\* given, and returns the unchanged snapshot
C5_FinalizeIdempotent ==
  [][(engine = "session" /\ last'.op = "finalize" /\ done)
       => /\ UNCHANGED <<committedBlocks, bufferBlocks, version, cursor,
                         done, bufferSource>>
          /\ returned' = snapshot(Session)
          /\ returned'.bufferBlocks = <<>>
          /\ returned'.done
    ]_vars

\* finalize with a non-empty extra was called on a done session
C5_Witness ==
  /\ engine = "session"
  /\ last.op = "finalize"
  /\ last.wasDone
  /\ last.argLen > 0
  /\ Len(committedBlocks.items) >= 1

\* C6: write on a done session throws for every chunk, the empty one
\* included, and leaves the session state as it was
C6_WriteOnDoneThrows ==
  [][(engine = "session" /\ last'.op = "write" /\ done)
       => /\ last'.threw
          /\ UNCHANGED <<committedBlocks, bufferBlocks, version, cursor,
                         done, bufferSource, returned>>
    ]_vars

\* write('') was called on a done session
C6_Witness ==
  /\ engine = "session"
  /\ last.op = "write"
  /\ last.wasDone
  /\ last.argLen = 0
  /\ last.threw

\* C7: once a session is done it stays done under write, finalize and
\* snapshot; only reset leaves the done state
C7_DoneIsTerminal ==
  [][(engine = "session" /\ done /\ last'.op # "reset") => done']_vars

\* a non-empty write was tried on a done session, which is still done
C7_Witness ==
  /\ engine = "session"
  /\ last.op = "write"
  /\ last.wasDone
  /\ last.argLen > 0
  /\ done

\* C8: a merge on the no-op or extension path (the input text equals or
\* extends the previous text) from a done state returns a done state
C8_MergeDoneMonotonic ==
  (engine = "merge" /\ last.op = "merge"
     /\ last.path \in {"noop", "extension"} /\ last.wasDone)
    => stateRef.state.done

\* C9: an extension merge keeps the previous committed blocks as a prefix,
\* appends only blocks parsed in this call, and leaves at most one buffer
\* block
C9_ExtensionAppendOnly ==
  [][(engine = "merge" /\ last'.op = "merge" /\ previousState # Undefined
        /\ StartsWith(stateRef'.state.text, previousState.text))
       => LET old == previousState.committedBlocks.items
              new == stateRef'.committedBlocks.items
          IN  /\ IsPrefix(old, new)
              /\ IsPrefix(SubSeq(new, Len(old) + 1, Len(new)), ParsedIn(last'))
              /\ stateRef'.state.committedBlocks = stateRef'.committedBlocks
              /\ Len(stateRef'.bufferBlock) <= 1
              /\ stateRef'.state.bufferBlock = stateRef'.bufferBlock
    ]_vars

\* a finalizing extension appended parsed blocks behind committed ones
C9_Witness ==
  /\ engine = "merge"
  /\ last.path = "extension"
  /\ ~last.wasDone
  /\ stateRef.state.done
  /\ Len(ParsedIn(last)) >= 1
  /\ Len(stateRef.committedBlocks.items) > Len(ParsedIn(last))

\* C10: an update that promotes nothing returns the very same committed
\* array: a session write keeps state.committedBlocks and returns it in the
\* snapshot, a non-promoting extension merge returns the previous array
\* both as result.committedBlocks and as result.state.committedBlocks
C10_ReferenceStability ==
  [][/\ (engine = "session" /\ last'.op = "write" /\ ~last'.threw
           /\ committedBlocks'.items = committedBlocks.items)
          => /\ committedBlocks'.ref = committedBlocks.ref
             /\ returned'.committedBlocks.ref = committedBlocks.ref
     /\ (engine = "merge" /\ last'.op = "merge" /\ previousState # Undefined
           /\ last'.path = "extension"
           /\ stateRef'.state.committedBlocks.items
                = previousState.committedBlocks.items)
          => /\ stateRef'.committedBlocks.ref
                  = previousState.committedBlocks.ref
             /\ stateRef'.state.committedBlocks.ref
                  = previousState.committedBlocks.ref
    ]_vars

\* an extension merge replaced only the buffer block
C10_Witness ==
  /\ engine = "merge"
  /\ last.path = "extension"
  /\ ~stateRef.state.done
  /\ Len(ParsedIn(last)) = 1
  /\ Len(stateRef.committedBlocks.items) >= 1
  /\ Len(stateRef.bufferBlock) = 1

\* C11: a snapshot already returned by a session is not changed by a later
\* write, finalize or reset: the array object its committedBlocks refers to
\* (the session's own array when the identities agree) still holds the
\* blocks the snapshot showed when it was returned
C11_SnapshotsImmutable ==
  [][(engine = "session" /\ returned # NoSnapshot
        /\ last'.op \in {"write", "finalize", "reset"}
        /\ returned.committedBlocks.ref = committedBlocks'.ref)
       => committedBlocks'.items = returned.committedBlocks.items
    ]_vars

\* C12: a merge whose joined text equals previous.text and whose done flag
\* equals previous.done returns the previous state: same text, cursor,
\* version, done flag, buffer block and committed array (same identity),
\* and hands nothing to the parser
C12_NoopMerge ==
  [][(engine = "merge" /\ last'.op = "merge" /\ last'.path = "noop")
       => /\ last'.spans = <<>>
          /\ stateRef'.state.text = previousState.text
          /\ stateRef'.state.cursor = previousState.cursor
          /\ stateRef'.state.version = previousState.version
          /\ stateRef'.state.done = previousState.done
          /\ stateRef'.state.bufferBlock = previousState.bufferBlock
          /\ stateRef'.state.committedBlocks = previousState.committedBlocks
          /\ stateRef'.bufferBlock = previousState.bufferBlock
          /\ stateRef'.committedBlocks = previousState.committedBlocks
    ]_vars

\* a no-op merge on a state with a committed block and a buffered block
C12_Witness ==
  /\ engine = "merge"
  /\ last.op = "merge"
  /\ last.path = "noop"
  /\ Len(stateRef.committedBlocks.items) >= 1
  /\ Len(stateRef.bufferBlock) = 1

\* C13: a merge with no previous state, or whose text does not start with
\* previous.text, returns a state built from a parse of the whole text
\* from offset 0 alone: all blocks committed when done, else all but the
\* newest committed and the newest buffered, in a new array; the version
\* is 0 with no previous state and previous.version + 1 on a divergence
C13_DivergenceRebuild ==
  [][(engine = "merge" /\ last'.op = "merge"
        /\ last'.path \in {"scratch", "divergence"})
       => LET next  == stateRef'.state
              nodes == Parse(next.text)
          IN  /\ ~last'.threw
              /\ last'.spans = IF next.text = <<>> THEN <<>>
                               ELSE <<next.text>>
              /\ next.done =>
                   /\ next.committedBlocks.items = nodes
                   /\ next.bufferBlock = <<>>
              /\ ~next.done =>
                   /\ PromotesAllButNewest(nodes, <<>>,
                        next.committedBlocks.items, next.bufferBlock)
                   /\ Len(nodes) = 0 =>
                        /\ next.committedBlocks.items = <<>>
                        /\ next.bufferBlock = <<>>
              /\ stateRef'.committedBlocks = next.committedBlocks
              /\ stateRef'.bufferBlock = next.bufferBlock
              /\ last'.path = "scratch" => next.version = 0
              /\ last'.path = "divergence" =>
                   /\ next.version = previousState.version + 1
                   /\ next.committedBlocks.ref
                        # previousState.committedBlocks.ref
    ]_vars

\* a divergence rebuilt a state with a committed and a buffered block
C13_Witness ==
  /\ engine = "merge"
  /\ last.op = "merge"
  /\ last.path = "divergence"
  /\ stateRef.state.version = 1
  /\ Len(stateRef.state.committedBlocks.items) >= 1
  /\ Len(stateRef.state.bufferBlock) = 1

\* C14: a merge on the extension path that takes the state from not done
\* to done returns a version greater than the previous version
C14_MergeFinalizeBumpsVersion ==
  [][(engine = "merge" /\ last'.op = "merge" /\ last'.path = "extension"
        /\ ~previousState.done /\ stateRef'.state.done)
       => stateRef'.state.version > previousState.version
    ]_vars

\* C15: a session write, or a merge on the extension path that is not
\* final, after which the committed sequence holds the same blocks as
\* before leaves the version as it was
C15_BufferOnlyKeepsVersion ==
  [][/\ (engine = "session" /\ last'.op = "write"
           /\ committedBlocks'.items = committedBlocks.items)
          => /\ version' = version
             /\ ~last'.threw => returned'.version = version
     /\ (engine = "merge" /\ last'.op = "merge" /\ last'.path = "extension"
           /\ ~stateRef'.state.done
           /\ stateRef'.state.committedBlocks.items
                = previousState.committedBlocks.items)
          => stateRef'.state.version = previousState.version
    ]_vars

\* after an earlier promotion, a write replaced only the buffer block
C15_Witness ==
  /\ engine = "session"
  /\ last.op = "write"
  /\ ~last.threw
  /\ Len(ParsedIn(last)) = 1
  /\ Len(committedBlocks.items) >= 1
  /\ Len(bufferBlocks) = 1
  /\ version = 1

\* C16: a session write changes the version exactly when it appended at
\* least one block to committedBlocks, and then by exactly 1, however
\* many blocks it appended; the snapshot it returns carries that version
C16_VersionTracksPromotions ==
  [][(engine = "session" /\ last'.op = "write")
       => LET appended ==
                Len(committedBlocks'.items) > Len(committedBlocks.items)
          IN  /\ committedBlocks'.ref = committedBlocks.ref
              /\ IsPrefix(committedBlocks.items, committedBlocks'.items)
              /\ (version' # version) <=> appended
              /\ appended => version' = version + 1
              /\ ~last'.threw => returned'.version = version'
    ]_vars

\* one write promoted two blocks at once and the version went up by one
C16_Witness ==
  /\ engine = "session"
  /\ last.op = "write"
  /\ ~last.threw
  /\ Len(ParsedIn(last)) >= 3
  /\ Len(committedBlocks.items) = 2
  /\ version = 1

\* C17: every finalize call that takes a session from not done to done
\* raises the version by exactly 1, whatever the pending text is
C17_FinalizeBumpsVersion ==
  [][(engine = "session" /\ last'.op = "finalize" /\ ~done /\ done')
       => version' = version + 1
    ]_vars

\* C18: the version in the snapshot after a reset is strictly greater than
\* the version before the reset
C18_ResetBumpsVersion ==
  [][(engine = "session" /\ last'.op = "reset")
       => /\ version' > version
          /\ returned'.version > version
    ]_vars

\* C19: every state a merge returns has 0 <= cursor <= length of its
\* text, and on the no-op and extension paths the cursor is at least the
\* previous cursor
C19_MergeCursor ==
  [][(engine = "merge" /\ last'.op = "merge")
       => /\ stateRef'.state.cursor >= 0
          /\ stateRef'.state.cursor <= Len(stateRef'.state.text)
          /\ last'.path \in {"noop", "extension"}
               => stateRef'.state.cursor >= previousState.cursor
    ]_vars

\* an extension merge moved the cursor forward to the start of a newly
\* buffered block that is not at the start of the text
C19_Witness ==
  /\ engine = "merge"
  /\ last.op = "merge"
  /\ last.path = "extension"
  /\ Len(ParsedIn(last)) >= 2
  /\ Len(stateRef.state.bufferBlock) = 1
  /\ stateRef.state.cursor > 0
  /\ stateRef.state.cursor < Len(stateRef.state.text)

\* C20: a merge on the extension path that is not final and whose parse of
\* the suffix gives zero blocks promotes nothing, leaves the buffer empty
\* and keeps the cursor at the previous cursor
C20_EmptyParseKeepsCursor ==
  [][(engine = "merge" /\ last'.op = "merge" /\ last'.path = "extension"
        /\ ~stateRef'.state.done
        /\ Len(last'.spans) = 1 /\ ParsedIn(last') = <<>>)
       => /\ stateRef'.state.committedBlocks = previousState.committedBlocks
          /\ stateRef'.state.bufferBlock = <<>>
          /\ stateRef'.state.cursor = previousState.cursor
    ]_vars

\* the seed value of a create or reset call: ingest hands the whole value
\* to the parser first, an empty value is never parsed
SeedOf(call) == IF call.argLen = 0 THEN <<>> ELSE call.spans[1]

\* what a block shows apart from its position in the parsed span
Contents(blocks) ==
  [i \in 1..Len(blocks) |-> [type |-> blocks[i].type, text |-> blocks[i].text]]

\* C21: right after createSession({value, done: true}) the session is
\* done, its buffer is empty and its committed blocks are, in order, all
\* the blocks of value (none for an empty value)
C21_SeededDoneCommitsAll ==
  (engine = "session" /\ last.op = "create" /\ last.argDone)
    => /\ last.argLen > 0 =>
            (Len(last.spans) >= 1 /\ Len(last.spans[1]) = last.argLen)
       /\ snapshot(Session).done
       /\ snapshot(Session).bufferBlocks = <<>>
       /\ Contents(snapshot(Session).committedBlocks.items)
            = Contents(Parse(SeedOf(last)))

\* a session created done from a value of two blocks
C21_Witness ==
  /\ engine = "session"
  /\ last.op = "create"
  /\ last.argDone
  /\ Len(Parse(SeedOf(last))) >= 2
  /\ Len(committedBlocks.items) >= 2
  /\ done

\* C22: after reset(init), from whatever state, the session holds what a
\* fresh createSession(init) holds: the same committed blocks, buffer,
\* cursor and done flag (and no other pending text), in a new array; a
\* reset with done = false leaves the session not done
C22_ResetAsCreate ==
  (engine = "session" /\ last.op = "reset")
    => LET init  == [value |-> SeedOf(last), done |-> last.argDone]
           fresh == createSession(<<init>>)
       IN  /\ Len(init.value) = last.argLen
           /\ committedBlocks.items = fresh.committedBlocks.items
           /\ bufferBlocks = fresh.bufferBlocks
           /\ cursor = fresh.cursor
           /\ done = fresh.done
           /\ bufferSource = fresh.bufferSource
           /\ returned = snapshot(Session)
           /\ ~last.argDone => ~done

\* a done session was reset to a streaming one with a buffered block
C22_Witness ==
  /\ engine = "session"
  /\ last.op = "reset"
  /\ last.wasDone
  /\ ~last.argDone
  /\ ~done
  /\ Len(bufferBlocks) = 1
  /\ Len(committedBlocks.items) = 1

Unconsumed(state) == Slice(state.text, state.cursor)

KeepsChunks(old, new) ==
  /\ Len(new) >= Len(old)
  /\ \A index \in 1..Len(old) : new[index] = old[index]

\* C25: an effect with streaming props, in the variant with the streaming
\* flag: when the previous props were streaming and the new chunks keep
\* every previous chunk, the session receives one write per new chunk, in
\* index order, and nothing else; otherwise (also on the first effect of
\* a component mounted streaming) it receives the single call
\* reset({value: chunks.join(''), done: false}); no call raises
C25_StreamingUpdates ==
  /\ (engine = "component" /\ last.op = "mount"
        /\ prevRef.mode = "streaming")
       => calls = <<SessionCall("reset", Join(prevRef.chunks), FALSE)>>
  /\ [][(engine = "component" /\ last'.op = "effect"
           /\ (last'.threw \/ prevRef'.mode = "streaming"))
          => /\ ~last'.threw
             /\ LET old == IF prevRef.mode = "streaming"
                           THEN prevRef.chunks ELSE <<>>
                    new == prevRef'.chunks
                IN  IF prevRef.mode = "streaming" /\ KeepsChunks(old, new)
                    THEN calls' = [i \in 1..(Len(new) - Len(old)) |->
                                     SessionCall("write", new[Len(old) + i],
                                                 FALSE)]
                    ELSE calls' = <<SessionCall("reset", Join(new), FALSE)>>
       ]_vars

\* an effect wrote two new chunks behind an unchanged one
C25_Witness ==
  /\ engine = "component"
  /\ last.op = "effect"
  /\ prevRef.mode = "streaming"
  /\ Len(prevRef.chunks) = 2
  /\ Len(calls) = 2
  /\ calls[1].op = "write" /\ calls[2].op = "write"
  /\ calls[1].arg # calls[2].arg

\* C26: an effect with stable props, in the variant with the streaming
\* flag. After streaming props: when the content starts with the streamed
\* text the session is finalized with exactly the rest of the content and
\* keeps its committed blocks, otherwise it is rebuilt by
\* reset({value: content, done: true}). After stable props: a different
\* content rebuilds it the same way, the same content leaves it untouched
C26_ModeTransitions ==
  [][(engine = "component" /\ last'.op = "effect"
        /\ prevRef'.mode = "stable")
       => LET content == prevRef'.content
              rebuilt == calls' = <<SessionCall("reset", content, TRUE)>>
          IN  /\ ~last'.threw
              /\ done'
              /\ prevRef.mode = "streaming" =>
                   IF StartsWith(content, prevRef.text)
                   THEN /\ calls' = <<SessionCall("finalize",
                                        Slice(content, Len(prevRef.text)),
                                        FALSE)>>
                        /\ committedBlocks'.ref = committedBlocks.ref
                        /\ IsPrefix(committedBlocks.items,
                                    committedBlocks'.items)
                   ELSE rebuilt
              /\ prevRef.mode = "stable" =>
                   IF prevRef.content # content
                   THEN rebuilt
                   ELSE /\ calls' = <<>>
                        /\ UNCHANGED <<committedBlocks, bufferBlocks,
                                       version, cursor, done, bufferSource>>
    ]_vars

\* streaming props were followed by a stable content that extends the
\* streamed text: the session was finalized with the rest
C26_Witness ==
  /\ engine = "component"
  /\ last.op = "effect"
  /\ prevRef.mode = "stable"
  /\ Len(calls) = 1
  /\ calls[1].op = "finalize"
  /\ Len(calls[1].arg) > 0
  /\ Len(calls[1].arg) < Len(prevRef.content)
  /\ done

\* C27: in the variant with the complete prop, no effect makes a session
\* call that raises: after complete = true has finalized the session, no
\* later props make applyStreamingProps write to the done session
C27_ClosedAfterFinalization ==
  [][(engine = "componentComplete" /\ last'.op = "effect")
       => ~last'.threw
    ]_vars

\* C28, as claimed: the cursor is the number of characters passed to the
\* session since its creation or last reset: the seed's length after a
\* create or reset, and every write or finalize that returns adds the
\* length of its text
C28_CursorCountsPassed ==
  /\ (engine = "session" /\ last.op = "create") => cursor = last.argLen
  /\ [][/\ (engine = "session" /\ last'.op = "reset")
             => cursor' = last'.argLen
        /\ (engine = "session" /\ last'.op \in {"write", "finalize"}
              /\ ~last'.threw)
             => cursor' = cursor + last'.argLen
       ]_vars

\* C28, amended: the cursor is the number of characters the session took
\* in since its creation or last reset: the seed, every write to a
\* not-done session and the extra of the finalize that closed it; a done
\* session takes in nothing (write raises, finalize ignores its extra);
\* the cursor changes in no other way, so it never decreases between resets
C28_CursorCountsAccepted ==
  /\ (engine = "session" /\ last.op = "create") => cursor = last.argLen
  /\ [][/\ (engine = "session" /\ last'.op = "reset")
             => cursor' = last'.argLen
        /\ (engine = "session" /\ last'.op \in {"write", "finalize"})
             => /\ cursor' = cursor + (IF done THEN 0 ELSE last'.argLen)
                /\ ~last'.threw => returned'.cursor = cursor'
        /\ (engine = "session" /\ last'.op = "snapshot")
             => /\ cursor' = cursor
                /\ returned'.cursor = cursor
       ]_vars

\* after a write, a finalize with an extra closed the session
C28_Witness ==
  /\ engine = "session"
  /\ last.op = "finalize"
  /\ ~last.wasDone
  /\ last.argLen > 0
  /\ cursor > last.argLen
  /\ returned.cursor = cursor

\* C29: renderDirectiveFromMap returns null, and invokes nothing, whenever
\* the directive has no name, no directives map is given or the map holds
\* no renderer under that name; what it invokes is the map's renderer
\* for the directive's name
C29_UnmatchedDirectiveIsNull ==
  (engine = "directive" /\ last.op = "renderDirectiveFromMap")
    => LET name == last.props.name
           unmatched == \/ name = <<>>
                        \/ name = <<"">>
                        \/ last.directives = <<>>
                        \/ name[1] \notin last.directives[1]
       IN  /\ unmatched => (last.result = NullNode /\ last.invoked = <<>>)
           /\ last.invoked # <<>> =>
                /\ ~unmatched
                /\ last.invoked[1] = [renderer |-> name[1], own |-> TRUE]

\* C30: in every state returned by mergeMarkdownState that holds a buffer
\* block, cursor is the absolute offset in the running text at which that
\* block starts: the text from cursor on begins with the block's content,
\* and after a call that parsed, cursor is the start of the parsed span
\* (previous.cursor, or 0 on a rebuild) plus the block's offset inside the
\* span; a state without a buffer block has cursor equal to the text length
C30_MergeCursorPosition ==
  (engine = "merge" /\ stateRef # Undefined)
    => LET s == stateRef.state
       IN  /\ s.bufferBlock = <<>> => s.cursor = Len(s.text)
           /\ s.bufferBlock # <<>> =>
                LET b == s.bufferBlock[1]
                IN  /\ s.cursor + Len(b.text) <= Len(s.text)
                    /\ SubSeq(s.text, s.cursor + 1, s.cursor + Len(b.text))
                         = b.text
                    /\ (last.op = "merge" /\ last.spans # <<>>)
                         => s.cursor
                              = (Len(s.text) - Len(last.spans[1])) + b.offset

\* an extension merge parsed a suffix that starts after the start of the
\* text and buffered a block that starts inside that suffix
C30_Witness ==
  /\ engine = "merge"
  /\ last.op = "merge"
  /\ last.path = "extension"
  /\ last.spans # <<>>
  /\ Len(last.spans[1]) < Len(stateRef.state.text)
  /\ Len(stateRef.state.bufferBlock) = 1
  /\ stateRef.state.bufferBlock[1].offset > 0

ScratchState(text) ==
  mergeMarkdownState(Undefined, [chunks |-> <<text>>, done |-> FALSE]).state

\* the state shows what a merge from nothing of its own text shows: the
\* same committed blocks by content and order, the same buffer block by
\* content, the same cursor and the same done flag
SameAsScratch(state) ==
  LET scratch == ScratchState(state.text)
  IN  /\ Contents(state.committedBlocks.items)
           = Contents(scratch.committedBlocks.items)
      /\ Contents(state.bufferBlock) = Contents(scratch.bufferBlock)
      /\ state.cursor = scratch.cursor
      /\ state.done = scratch.done

MaxSteps == 3
MaxPiece == 2

Pieces == UNION {[1..n -> Chars] : n \in 0..MaxPiece}

\* the chunks streamed so far: the list the merge state keeps
streamed == IF stateRef = Undefined THEN <<>> ELSE stateRef.state.chunks

\* const session = createSession(); no merge state yet
InitPair ==
  /\ engine = "pair"
  /\ stateRef = Undefined
  /\ prevRef = PrevNone
  /\ calls = <<>>
  /\ returned = NoSnapshot
  /\ \E s \in {createSession(<<>>)} :
       /\ committedBlocks = s.committedBlocks
       /\ bufferBlocks = s.bufferBlocks
       /\ version = s.version
       /\ cursor = s.cursor
       /\ done = s.done
       /\ bufferSource = s.bufferSource
       /\ last = Call("create", <<>>, FALSE, FALSE, FALSE, "", s.spans)

\* the next chunk arrives: session.write(chunk) and
\* mergeMarkdownState(state, {chunks: [...chunks, chunk], done: false})
AppendChunk ==
  /\ engine = "pair"
  /\ ~done
  /\ Len(streamed) < MaxSteps
  /\ \E chunk \in Pieces :
       \E input \in {[chunks |-> Append(streamed, chunk), done |-> FALSE]} :
         \E r \in {write(Session, chunk)} :
           \E m \in {mergeMarkdownState(previousState, input)} :
             /\ SetSession(r.state)
             /\ returned' = IF r.threw THEN returned ELSE snapshot(r.state)
             /\ stateRef' = [state |-> m.state,
                             committedBlocks |-> m.committedBlocks,
                             bufferBlock |-> m.bufferBlock]
             /\ last' = Call("write", chunk, FALSE, r.threw, done,
                             mergePath(previousState, input), r.state.spans)
  /\ UNCHANGED <<engine, prevRef, calls>>

\* the stream ends: session.finalize(extra) and the merge of the whole
\* chunk list (with extra as its last chunk when there is one) with
\* done = true
CloseStream ==
  /\ engine = "pair"
  /\ ~done
  /\ \E extra \in Pieces :
       /\ extra # <<>> => Len(streamed) < MaxSteps
       /\ \E input \in {[chunks |-> IF extra = <<>> THEN streamed
                                    ELSE Append(streamed, extra),
                         done |-> TRUE]} :
            \E s \in {finalizeSession(Session, extra)} :
              \E m \in {mergeMarkdownState(previousState, input)} :
                /\ SetSession(s)
                /\ returned' = snapshot(s)
                /\ stateRef' = [state |-> m.state,
                                committedBlocks |-> m.committedBlocks,
                                bufferBlock |-> m.bufferBlock]
                /\ last' = Call("finalize", extra, TRUE, FALSE, done,
                                mergePath(previousState, input), s.spans)
  /\ UNCHANGED <<engine, prevRef, calls>>

SpecPair == InitPair /\ [][AppendChunk \/ CloseStream]_vars

\* C33: after any sequence of writes on a fresh session the committed
\* blocks followed by the buffered blocks are, block for block, the blocks
\* of the concatenation of the written chunks, however the text was split;
\* after a following finalize the committed blocks alone are that sequence
\* and nothing is buffered
C33_SessionKeepsEveryBlock ==
  (engine = "pair" /\ last.op \in {"write", "finalize"})
    => LET whole == Contents(Parse(Join(streamed)))
       IN  /\ ~done => Contents(committedBlocks.items \o bufferBlocks) = whole
           /\ done => /\ Contents(committedBlocks.items) = whole
                      /\ bufferBlocks = <<>>

\* three chunks were written, one block of the text runs over a chunk
\* boundary, and after the finalize two or more blocks are committed
C33_Witness ==
  /\ engine = "pair"
  /\ last.op = "finalize"
  /\ done
  /\ Len(streamed) = 3
  /\ \E i \in 1..2 :
       /\ Len(streamed[i]) > 0
       /\ Len(streamed[i + 1]) > 0
       /\ streamed[i][Len(streamed[i])] # Break
       /\ streamed[i + 1][1] # Break
  /\ Len(committedBlocks.items) >= 2

MaxSplit == 2

SplitTexts == UNION {[1..n -> Chars] : n \in 0..MaxSplit}

\* every way to pass a text as two chunks, an empty chunk included
SplitInputs ==
  UNION {{[chunks |-> <<SubSeq(t, 1, k), SubSeq(t, k + 1, Len(t))>>,
           done |-> d] : k \in 0..Len(t), d \in BOOLEAN} : t \in SplitTexts}

InitChunks ==
  /\ engine = "chunks"
  /\ stateRef = Undefined
  /\ prevRef = PrevNone
  /\ calls = <<>>
  /\ returned = NoSnapshot
  /\ \E s \in {BlankSession(0)} :
       /\ committedBlocks = s.committedBlocks
       /\ bufferBlocks = s.bufferBlocks
       /\ version = s.version
       /\ cursor = s.cursor
       /\ done = s.done
       /\ bufferSource = s.bufferSource
  /\ last = Call("none", <<>>, FALSE, FALSE, FALSE, "", <<>>)

\* stateRef.current = mergeMarkdownState(stateRef.current?.state, input)
\* with the text passed as two chunks
MergeChunks ==
  /\ engine = "chunks"
  /\ \E input \in SplitInputs :
       /\ Len(input.chunks[1]) + Len(input.chunks[2]) <= MaxSplit
       /\ \E path \in {mergePath(previousState, input)} :
            /\ path = "divergence" => previousState.version < MaxVersion
            /\ \E r \in {mergeMarkdownState(previousState, input)} :
                 /\ stateRef' = [state |-> r.state,
                                 committedBlocks |-> r.committedBlocks,
                                 bufferBlock |-> r.bufferBlock]
                 /\ last' = Call("merge", r.state.text, input.done, FALSE,
                                 IF previousState = Undefined THEN FALSE
                                 ELSE previousState.done,
                                 path, r.spans)
  /\ UNCHANGED <<engine, committedBlocks, bufferBlocks, version, cursor,
                 done, bufferSource, returned, prevRef, calls>>

SpecChunks == InitChunks /\ [][MergeChunks]_vars
\* what a merge state holds apart from the stored chunk list
Unchunked(state) ==
  [text |-> state.text, cursor |-> state.cursor, version |-> state.version,
   committedBlocks |-> state.committedBlocks,
   bufferBlock |-> state.bufferBlock, done |-> state.done]

\* C35: from the same previous state, an input of two chunks gives the
\* state (text, cursor, version, committed array, buffer block, done) that
\* the input with the joined text as one chunk and the same done flag
\* gives, so any two chunkings of a text give the same state but for the
\* stored chunks; an input whose chunks join to previous.text with the
\* same done flag takes the no-op path and returns the previous fields
C35_ChunkBoundariesIrrelevant ==
  [][(engine = "chunks" /\ last'.op = "merge")
       => LET new == stateRef'.state
              one == mergeMarkdownState(previousState,
                       [chunks |-> <<Join(new.chunks)>>,
                        done |-> last'.argDone]).state
          IN  /\ Unchunked(new) = Unchunked(one)
              /\ new.text = Join(new.chunks)
              /\ (/\ previousState # Undefined
                  /\ Join(new.chunks) = previousState.text
                  /\ last'.argDone = previousState.done)
                   => /\ last'.path = "noop"
                      /\ last'.spans = <<>>
                      /\ Unchunked(new) = Unchunked(previousState)
    ]_vars

\* a text was passed again split in the middle of a block: the call took
\* the no-op path and kept a committed block and a buffer block
C35_Witness ==
  /\ engine = "chunks"
  /\ last.op = "merge"
  /\ last.path = "noop"
  /\ Len(stateRef.state.chunks[1]) = 1
  /\ Len(stateRef.state.chunks[2]) = 1
  /\ stateRef.state.chunks[1][1] # Break
  /\ stateRef.state.chunks[2][1] # Break
  /\ Len(stateRef.state.committedBlocks.items) = 1
  /\ Len(stateRef.state.bufferBlock) = 1

\* C36: a merge leaves the array previous.committedBlocks as it was: when
\* the returned committed array is the previous array object it holds the
\* previous items, and when the committed items changed the returned array
\* is another object, in the result and in the returned state alike
C36_MergeKeepsPreviousArray ==
  [][(engine = "merge" /\ last'.op = "merge" /\ previousState # Undefined)
       => LET old == previousState.committedBlocks
          IN  /\ stateRef'.state.committedBlocks.ref = old.ref
                   => stateRef'.state.committedBlocks.items = old.items
              /\ stateRef'.committedBlocks.ref = old.ref
                   => stateRef'.committedBlocks.items = old.items
              /\ stateRef'.committedBlocks = stateRef'.state.committedBlocks
    ]_vars

\* a not-done extension merge promoted a block onto a previous state that
\* already held committed blocks
C36_Witness ==
  /\ engine = "merge"
  /\ last.op = "merge"
  /\ last.path = "extension"
  /\ ~last.argDone
  /\ Len(ParsedIn(last)) >= 2
  /\ Len(stateRef.committedBlocks.items) >= Len(ParsedIn(last))

\* C37: in the variant with the complete prop, once applyStableProps has
\* run (at the mount or in an effect) the session is done, has consumed
\* exactly props.content, buffers nothing and its committed blocks are the
\* blocks of content
C37_StableShowsContent ==
  (engine = "componentComplete" /\ ~last.threw /\ prevRef.mode = "stable")
    => /\ done
       /\ cursor = Len(prevRef.content)
       /\ bufferBlocks = <<>>
       /\ Contents(committedBlocks.items) = Contents(Parse(prevRef.content))

\* C38: in the variant with the streaming flag no effect raises: while
\* prevRef records streaming props the session is open, so the writes of
\* applyStreamingProps reach an open session, and while it records stable
\* props the session is done
C38_NeverWritesToClosed ==
  engine = "component"
    => /\ ~last.threw
       /\ prevRef.mode = "streaming" => ~done
       /\ prevRef.mode = "stable" => done

\* an effect appended a chunk with session.write after an earlier chunk
\* had been taken in
C38_Witness ==
  /\ engine = "component"
  /\ last.op = "effect"
  /\ ~last.threw
  /\ calls # <<>>
  /\ calls[1].op = "write"
  /\ prevRef.mode = "streaming"
  /\ Len(prevRef.chunks) = 2
  /\ cursor = 2

\* C39: write('') on a session that is not done returns without raising,
\* hands nothing to the parser and leaves the committed array, the buffered
\* blocks, the version, the cursor, the done flag and the pending text as
\* they were; the snapshot it returns shows those values
C39_EmptyWriteIsNoop ==
  [][(engine = "session" /\ last'.op = "write" /\ ~done /\ last'.argLen = 0)
       => /\ ~last'.threw
          /\ last'.spans = <<>>
          /\ UNCHANGED <<committedBlocks, bufferBlocks, version, cursor,
                         done, bufferSource>>
          /\ returned' = snapshot(Session)
    ]_vars

\* write('') was called on an open session that holds a committed block,
\* a buffered block and pending text
C39_Witness ==
  /\ engine = "session"
  /\ last.op = "write"
  /\ last.argLen = 0
  /\ ~last.wasDone
  /\ ~last.threw
  /\ Len(committedBlocks.items) >= 1
  /\ Len(bufferBlocks) = 1
  /\ Len(bufferSource) > 0

====
